---- MODULE Spec2Model ----
(***************************************************************************)
(* Model of backend/services/ImageProcessingService.py: the class-level   *)
(* DEFAULT_SETTINGS table, process_image (settings merge, decode, mode     *)
(* dispatch, format resolution, save, result record, except handler) and   *)
(* the auto-mode optimizer _process_auto_mode, together with the resize    *)
(* primitives _resize_image and _compress_image.                           *)
(*                                                                         *)
(* The Pillow codec is external: decoding, encoding and saving succeed or  *)
(* fail nondeterministically, and the encoded size measured in one         *)
(* optimizer round is any value of Sizes.  File sizes are counted in KiB   *)
(* (the code's 150 * 1024 bytes is 150 here); only ratios and comparisons  *)
(* of sizes are used by the code.  None is modelled as 0 for the resize    *)
(* width/height, which the code only tests for truthiness.                 *)
(* Calls of process_image are taken one after the other, all in one        *)
(* interpreter, so that they share the class attribute DEFAULT_SETTINGS.   *)
(***************************************************************************)
EXTENDS Integers, FiniteSets, Sequences, TLC

\* Encoded sizes the codec may report are 100, 200, ... 100 * MaxSizeSteps KiB.
MaxSizeSteps == 4

Sizes == {100 * k : k \in 1..MaxSizeSteps}

\* ---------------------------------------------------------------- constants
\* Mutant: the search starts at a lower quality.
InitialQualityLow == 95 - 45

InitialQuality == 95

\* Mutant: range(max_iterations + 1).
max_iterations_off_by_one == 10 + 1

max_iterations == 10

PreResizeLimit == 2048

MinWidth == 300

MinHeight == 200

NestedKeys == {"compression", "format", "optimization", "resize"}

\* The value of DEFAULT_SETTINGS as written in the class body.
DefaultsAsWritten ==
    [mode |-> "auto",
     targetFileSize |-> 150,
     compression |-> [enabled |-> TRUE, quality |-> 85, maxWidth |-> 1920, maxHeight |-> 1080],
     format |-> [outputFormat |-> "webp", convertToWebp |-> TRUE],
     optimization |-> [removeMetadata |-> TRUE, progressive |-> TRUE, autoOrient |-> TRUE],
     resize |-> [enabled |-> FALSE, width |-> 0, height |-> 0, maintainAspectRatio |-> TRUE]]

\* OUTPUT_FORMATS.get(name, 'WEBP') for the names other than 'original'.
OUTPUT_FORMATS(name) ==
    CASE name \in {"jpeg", "jpg"} -> "JPEG"
      [] name = "png" -> "PNG"
      [] name = "webp" -> "WEBP"
      [] name = "gif" -> "GIF"
      [] OTHER -> "WEBP"

\* Exception classes a stage of process_image can raise; all of them derive
\* from Exception.
StageErrors == {"AttributeError", "UnidentifiedImageError", "OSError", "TypeError", "ValueError"}

\* Failures raised inside the codec (decode, resize, encode, save).
CodecErrors == {"UnidentifiedImageError", "OSError", "ValueError"}

\* ------------------------------------------------------------------- inputs
\* Input images: dimensions, container format and EXIF orientation
\* (1 = upright, 6 = rotated by 90 degrees, 0 = an EXIF block that makes
\* exif_transpose raise).
Inputs ==
    {[w |-> 4000, h |-> 3000, format |-> "PNG", orient |-> 1],
     [w |-> 1600, h |-> 1200, format |-> "JPEG", orient |-> 6],
     [w |-> 4000, h |-> 300, format |-> "JPEG", orient |-> 1],
     [w |-> 4096, h |-> 1, format |-> "PNG", orient |-> 1],
     [w |-> 250, h |-> 150, format |-> "PNG", orient |-> 0]}

OverrideNames ==
    {"none", "original", "manual", "manual_original", "manual_resize",
     "target0", "targetneg", "quality60", "notadict"}

\* Whether the settings argument is a dict ("notadict" is a truthy string).
IsDict(name) == name # "notadict"

\* The settings argument of process_image, by name.
OverrideOf(name) ==
    CASE name = "original" -> [format |-> [outputFormat |-> "original"]]
      [] name = "manual" -> [mode |-> "manual"]
      [] name = "manual_original" ->
            [mode |-> "manual", format |-> [outputFormat |-> "original"]]
      [] name = "manual_resize" ->
            [mode |-> "manual",
             resize |-> [enabled |-> TRUE, width |-> 800, maintainAspectRatio |-> TRUE]]
      [] name = "target0" -> [targetFileSize |-> 0]
      [] name = "targetneg" -> [targetFileSize |-> -1]
      [] name = "quality60" -> [compression |-> [quality |-> 60]]
      [] OTHER -> << >>

\* ----------------------------------------------------------- pure functions
Max(a, b) == IF a >= b THEN a ELSE b

Min(a, b) == IF a <= b THEN a ELSE b

\* The recursive call of _deep_merge on a nested dict whose values are scalars:
\* a new dict, the override's values replacing the base's.
DeepMergeNested(base, override) ==
    [k \in DOMAIN base \cup DOMAIN override |->
        IF k \in DOMAIN override THEN override[k] ELSE base[k]]

\* {**DEFAULT_SETTINGS} followed by _deep_merge: the top-level dict is new;
\* a nested dict is new (field own) only when the override names its key, and
\* is otherwise the very object DEFAULT_SETTINGS holds.
MergeSettings(defaults, override) ==
    [mode |-> IF "mode" \in DOMAIN override THEN override.mode ELSE defaults.mode,
     targetFileSize |-> IF "targetFileSize" \in DOMAIN override
                        THEN override.targetFileSize ELSE defaults.targetFileSize,
     own |-> [k \in NestedKeys \cap DOMAIN override |->
                 DeepMergeNested(defaults[k], override[k])]]

\* ratio = min(mw / w, mh / h); (int(w * ratio), int(h * ratio)), in exact
\* arithmetic.
FitWithin(w, h, mw, mh) ==
    IF mw * h <= mh * w
    THEN <<(w * mw) \div w, (h * mw) \div w>>
    ELSE <<(w * mh) \div h, (h * mh) \div h>>

\* Mutant: the pre-resize is skipped.
PreResizeSkipped(w, h) == <<w, h>>

\* The pre-resize of _process_auto_mode.
PreResize(w, h) ==
    IF w > PreResizeLimit \/ h > PreResizeLimit
    THEN FitWithin(w, h, PreResizeLimit, PreResizeLimit)
    ELSE <<w, h>>

\* _compress_image: the dimensions handed to image.resize, or the current
\* ones when no resize is needed.
CompressDims(w, h, c) ==
    IF w <= c.maxWidth /\ h <= c.maxHeight
    THEN <<w, h>>
    ELSE FitWithin(w, h, c.maxWidth, c.maxHeight)

\* _resize_image: the dimensions handed to image.resize, or the current ones
\* when neither target is given.
ResizeDims(w, h, r) ==
    IF r.width = 0 /\ r.height = 0 THEN <<w, h>>
    ELSE IF r.maintainAspectRatio
         THEN IF r.width # 0 /\ r.height # 0 THEN FitWithin(w, h, r.width, r.height)
              ELSE IF r.width # 0 THEN <<r.width, (h * r.width) \div w>>
              ELSE <<(w * r.height) \div h, r.height>>
         ELSE <<IF r.width # 0 THEN r.width ELSE w, IF r.height # 0 THEN r.height ELSE h>>

\* ImageOps.exif_transpose inside _auto_orient's try/except.
AutoOrient(w, h, orient) == IF orient = 6 THEN <<h, w>> ELSE <<w, h>>

\* image.resize raises ValueError unless both dimensions are positive.
Resizable(d) == d[1] >= 1 /\ d[2] >= 1

\* Mutant: the fine quality step stops at 25, so that dimensions are reduced
\* while quality is still above its floor.
BranchDimsEarly(current_size, target_size, q) ==
    IF current_size <= target_size THEN "break"
    ELSE IF 2 * current_size > 3 * target_size /\ q > 30 THEN "aggressive"
    ELSE IF current_size > target_size /\ q > 25 THEN "fine"
    ELSE "resize"

\* The branch one optimizer round takes after measuring current_size.
\* target_size * 1.5 is compared exactly: s > 1.5 t  iff  2 s > 3 t.
Branch(current_size, target_size, q) ==
    IF current_size <= target_size THEN "break"
    ELSE IF 2 * current_size > 3 * target_size /\ q > 30 THEN "aggressive"
    ELSE IF current_size > target_size /\ q > 20 THEN "fine"
    ELSE "resize"

\* quality = max(30, quality - 15)
AggressiveStep(q) == Max(30, q - 15)

\* quality = max(20, quality - 5)
FineStep(q) == Max(20, q - 5)

\* quality = min(85, quality + 10)
AfterResizeQuality(q) == Min(85, q + 10)

\* (target_size / current_size) ** 0.5 is a float only for a target >= 0; a
\* negative base yields a complex number, and int() of it raises TypeError.
ScaleIsReal(target_size) == target_size >= 0

\* int(c * (t / s) ** 0.5) for 0 <= t < s, in exact arithmetic.
ScaledDim(c, t, s) ==
    CHOOSE n \in 0..c : n * n * s <= c * c * t /\ (n + 1) * (n + 1) * s > c * c * t

\* new_width, new_height of the in-loop dimension reduction.
ReducedDims(cw, ch, t, s) ==
    <<Max(MinWidth, ScaledDim(cw, t, s)), Max(MinHeight, ScaledDim(ch, t, s))>>

\* Mutant: 'original' is looked up in OUTPUT_FORMATS like any other name.
DetermineOutputFormatNoOriginal(original_format, format_settings) ==
    OUTPUT_FORMATS(format_settings.outputFormat)

\* _determine_output_format (no input of the model has an unknown format).
DetermineOutputFormat(original_format, format_settings) ==
    IF format_settings.outputFormat = "original"
    THEN original_format
    ELSE OUTPUT_FORMATS(format_settings.outputFormat)

\* _get_save_kwargs: the quality passed to save, 0 when none is passed.
SaveQuality(output_format, compression) ==
    IF output_format \in {"JPEG", "WEBP"} THEN compression.quality ELSE 0

\* Mutant: "except (OSError, ValueError)".
HandlesCodecOnly(kind) == kind \in CodecErrors

\* "except Exception": the classes the handler of process_image catches.
Handles(kind) == kind \in StageErrors

\* -------------------------------------------------------------------- state
VARIABLES
    pc,                  \* where the current process_image call stands
    DEFAULT_SETTINGS,    \* the class attribute, shared by every call
    processing_settings, \* the merged settings of the current call
    input,               \* the arguments of the current call
    image,               \* image.size of the buffer the call holds
    new_size,            \* (new_width, new_height) last computed for a resize
    quality,             \* _process_auto_mode: quality
    rounds,              \* _process_auto_mode: encode-and-measure rounds done
    current_size,        \* _process_auto_mode: the size measured last
    resizes,             \* _process_auto_mode: in-loop resizes done
    resize_round,        \* _process_auto_mode: the round of the last in-loop resize
    result,              \* the record process_image returns
    escaped              \* an exception left process_image

vars == <<pc, DEFAULT_SETTINGS, processing_settings, input, image, new_size, quality,
          rounds, current_size, resizes, resize_round, result, escaped>>

NoSettings == [mode |-> "auto", targetFileSize |-> 0, own |-> << >>]

NoInput == [name |-> "none", img |-> [w |-> 1, h |-> 1, format |-> "PNG", orient |-> 1]]

NoResult == [success |-> FALSE, error_type |-> "none"]

autoVars == <<quality, rounds, current_size, resizes, resize_round>>

\* settings[k] for a nested key: the call's own dict, or the one of
\* DEFAULT_SETTINGS when the shallow copy still refers to it.
Nested(k) ==
    IF k \in DOMAIN processing_settings.own
    THEN processing_settings.own[k]
    ELSE DEFAULT_SETTINGS[k]

\* settings['format']['outputFormat'] = 'webp' and the three optimization flags.
AutoForce(k, d) ==
    CASE k = "format" -> [d EXCEPT !.outputFormat = "webp"]
      [] k = "optimization" ->
            [d EXCEPT !.removeMetadata = TRUE, !.autoOrient = TRUE, !.progressive = TRUE]
      [] OTHER -> d

\* settings['compression']['quality'] = quality; ['enabled'] = True.
WriteBack(k, d) ==
    IF k = "compression" THEN [d EXCEPT !.quality = quality, !.enabled = TRUE] ELSE d

\* The item assignments _process_auto_mode makes on settings[k]: before the
\* loop ("force") and after it ("writeback").
Assign(phase, k, d) == IF phase = "force" THEN AutoForce(k, d) ELSE WriteBack(k, d)

\* DEFAULT_SETTINGS after those assignments: they land in the class
\* attribute's dicts for every nested key the call does not own.
StoreDefaults(phase) ==
    [k \in DOMAIN DEFAULT_SETTINGS |->
        IF k \in NestedKeys \ DOMAIN processing_settings.own
        THEN Assign(phase, k, DEFAULT_SETTINGS[k])
        ELSE DEFAULT_SETTINGS[k]]

\* processing_settings after those assignments.
StoreOwn(phase) ==
    [processing_settings EXCEPT
        !.own = [k \in DOMAIN processing_settings.own |->
                    Assign(phase, k, processing_settings.own[k])]]

\* An exception of class kind raised inside the try block of process_image.
Raise(kind) ==
    /\ pc' = "done"
    /\ escaped' = ~Handles(kind)
    /\ result' = IF Handles(kind) THEN [success |-> FALSE, error_type |-> kind] ELSE NoResult

Init ==
    /\ pc = "idle"
    /\ DEFAULT_SETTINGS = DefaultsAsWritten
    /\ processing_settings = NoSettings
    /\ input = NoInput
    /\ image = <<1, 1>>
    /\ new_size = <<1, 1>>
    /\ quality = InitialQuality
    /\ rounds = 0
    /\ current_size = 0
    /\ resizes = 0
    /\ resize_round = 0
    /\ result = NoResult
    /\ escaped = FALSE

\* process_image up to the mode dispatch: settings merge and Image.open.
Enter(name, img, decode_ok) ==
    /\ pc = "idle"
    /\ input' = [name |-> name, img |-> img]
    /\ UNCHANGED <<DEFAULT_SETTINGS, autoVars>>
    /\ IF ~IsDict(name)
       THEN /\ Raise("AttributeError")
            /\ UNCHANGED <<processing_settings, image, new_size>>
       ELSE /\ processing_settings' = MergeSettings(DEFAULT_SETTINGS, OverrideOf(name))
            /\ IF ~decode_ok
               THEN /\ Raise("UnidentifiedImageError")
                    /\ UNCHANGED <<image, new_size>>
               ELSE /\ image' = <<img.w, img.h>>
                    /\ new_size' = <<img.w, img.h>>
                    /\ pc' = IF processing_settings'.mode = "auto" THEN "auto" ELSE "manual"
                    /\ UNCHANGED <<result, escaped>>

\* _process_auto_mode up to the loop: forced settings, auto-orient, pre-resize.
AutoSetup ==
    /\ pc = "auto"
    /\ DEFAULT_SETTINGS' = StoreDefaults("force")
    /\ processing_settings' = StoreOwn("force")
    /\ quality' = InitialQuality
    /\ UNCHANGED <<input, rounds, current_size, resizes, resize_round>>
    /\ LET o == AutoOrient(image[1], image[2], input.img.orient)
           d == PreResize(o[1], o[2])
       IN  IF d # o /\ ~Resizable(d)
           THEN /\ Raise("ValueError")
                /\ new_size' = d
                /\ UNCHANGED image
           ELSE /\ image' = d
                /\ new_size' = IF d # o THEN d ELSE new_size
                /\ pc' = "loop"
                /\ UNCHANGED <<result, escaped>>

\* Where the for loop goes after a round that did not break.
AfterRound == IF rounds + 1 < max_iterations THEN "loop" ELSE "writeback"

\* One iteration of the for loop: encode at the current quality, measure, step.
Round(size, encode_ok) ==
    /\ pc = "loop"
    /\ UNCHANGED <<DEFAULT_SETTINGS, processing_settings, input>>
    /\ IF ~encode_ok
       THEN /\ Raise("OSError")
            /\ UNCHANGED <<image, new_size, autoVars>>
       ELSE /\ rounds' = rounds + 1
            /\ current_size' = size
            /\ LET target_size == processing_settings.targetFileSize
                   b == Branch(size, target_size, quality)
               IN  CASE b = "break" ->
                          /\ pc' = "writeback"
                          /\ UNCHANGED <<image, new_size, quality, resizes, resize_round,
                                         result, escaped>>
                     [] b = "aggressive" ->
                          /\ quality' = AggressiveStep(quality)
                          /\ pc' = AfterRound
                          /\ UNCHANGED <<image, new_size, resizes, resize_round,
                                         result, escaped>>
                     [] b = "fine" ->
                          /\ quality' = FineStep(quality)
                          /\ pc' = AfterRound
                          /\ UNCHANGED <<image, new_size, resizes, resize_round,
                                         result, escaped>>
                     [] OTHER ->
                          IF ~ScaleIsReal(target_size)
                          THEN /\ Raise("TypeError")
                               /\ UNCHANGED <<image, new_size, quality, resizes, resize_round>>
                          ELSE LET d == ReducedDims(image[1], image[2], target_size, size)
                               IN  /\ new_size' = d
                                   /\ UNCHANGED <<result, escaped>>
                                   /\ IF d[1] < image[1] /\ d[2] < image[2]
                                      THEN /\ image' = d
                                           /\ quality' = AfterResizeQuality(quality)
                                           /\ resizes' = resizes + 1
                                           /\ resize_round' = rounds + 1
                                           /\ pc' = AfterRound
                                      ELSE /\ pc' = "writeback"
                                           /\ UNCHANGED <<image, quality, resizes, resize_round>>

\* _process_auto_mode after the loop: the final quality is written to settings.
AutoReturn ==
    /\ pc = "writeback"
    /\ DEFAULT_SETTINGS' = StoreDefaults("writeback")
    /\ processing_settings' = StoreOwn("writeback")
    /\ pc' = "output"
    /\ UNCHANGED <<input, image, new_size, autoVars, result, escaped>>

\* The manual branch of process_image: auto-orient, _resize_image, _compress_image.
Manual ==
    /\ pc = "manual"
    /\ UNCHANGED <<DEFAULT_SETTINGS, processing_settings, input, autoVars>>
    /\ LET r  == Nested("resize")
           c  == Nested("compression")
           d0 == IF Nested("optimization").autoOrient
                 THEN AutoOrient(image[1], image[2], input.img.orient)
                 ELSE image
           doResize == r.enabled /\ ~(r.width = 0 /\ r.height = 0)
           d1 == IF doResize THEN ResizeDims(d0[1], d0[2], r) ELSE d0
           d2 == IF c.enabled THEN CompressDims(d1[1], d1[2], c) ELSE d1
       IN  IF doResize /\ ~Resizable(d1)
           THEN /\ Raise("ValueError")
                /\ new_size' = d1
                /\ UNCHANGED image
           ELSE IF d2 # d1 /\ ~Resizable(d2)
           THEN /\ Raise("ValueError")
                /\ new_size' = d2
                /\ UNCHANGED image
           ELSE /\ image' = d2
                /\ new_size' = IF d2 # d1 THEN d2 ELSE IF doResize THEN d1 ELSE new_size
                /\ pc' = "output"
                /\ UNCHANGED <<result, escaped>>

\* process_image after the dispatch: format resolution, save kwargs, metadata
\* strip, save and the result record.
Output(save_ok) ==
    /\ pc = "output"
    /\ UNCHANGED <<DEFAULT_SETTINGS, processing_settings, input, image, new_size, autoVars>>
    /\ IF ~save_ok
       THEN Raise("OSError")
       ELSE LET output_format == DetermineOutputFormat(input.img.format, Nested("format"))
            IN  /\ result' = [success |-> TRUE,
                              format |-> output_format,
                              size |-> image,
                              quality |-> SaveQuality(output_format, Nested("compression"))]
                /\ pc' = "done"
                /\ UNCHANGED escaped

\* The caller takes the record; the locals of the call are gone.
Return ==
    /\ pc = "done"
    /\ ~escaped
    /\ pc' = "idle"
    /\ processing_settings' = NoSettings
    /\ input' = NoInput
    /\ image' = <<1, 1>>
    /\ new_size' = <<1, 1>>
    /\ quality' = InitialQuality
    /\ rounds' = 0
    /\ current_size' = 0
    /\ resizes' = 0
    /\ resize_round' = 0
    /\ result' = NoResult
    /\ UNCHANGED <<DEFAULT_SETTINGS, escaped>>

Next ==
    \/ \E name \in OverrideNames, img \in Inputs, decode_ok \in BOOLEAN :
          Enter(name, img, decode_ok)
    \/ AutoSetup
    \/ \E size \in Sizes, encode_ok \in BOOLEAN : Round(size, encode_ok)
    \/ AutoReturn
    \/ Manual
    \/ \E save_ok \in BOOLEAN : Output(save_ok)
    \/ Return

Spec == Init /\ [][Next]_vars

\* ------------------------------------------------------------------- claims
InAuto == processing_settings.mode = "auto" /\ pc \in {"loop", "writeback", "output"}

\* _process_auto_mode has left its loop and returns.
AutoExit == processing_settings.mode = "auto" /\ pc \in {"writeback", "output"}

LongEdgeOver == Max(input.img.w, input.img.h) > 2048

AtFloor == image[1] >= 300 /\ image[2] >= 200

\* C1: with a positive targetFileSize, whatever sizes the codec reports,
\* _process_auto_mode runs at most 10 encode-and-measure rounds, and after
\* the 10th it is no longer in its loop.
C1_Termination ==
    processing_settings.targetFileSize > 0 =>
        /\ rounds <= 10
        /\ (pc = "loop" => rounds < 10)

C1_Witness ==
    /\ processing_settings.targetFileSize > 0
    /\ pc = "writeback"
    /\ rounds = 10
    /\ current_size > processing_settings.targetFileSize

\* C2: when _process_auto_mode returns, quality >= 20, and the buffer is at
\* least 300 wide and 200 high unless the original image was smaller.
C2_FloorGuarantee ==
    AutoExit =>
        /\ quality >= 20
        /\ (input.img.w >= 300 /\ input.img.h >= 200 => AtFloor)

C4_UnreachableTargetNotError ==
    (pc = "done" /\ input.name \in {"target0", "targetneg"}
                 /\ processing_settings.targetFileSize <= 0 /\ ~result.success) =>
        result.error_type \in CodecErrors

\* C5: in every reachable state DEFAULT_SETTINGS equals the documented
\* defaults (compression.quality = 85, format.outputFormat = "webp", ...).
C5_DefaultsUnchanged == DEFAULT_SETTINGS = DefaultsAsWritten

\* C6 as stated: overrides exactly {format: {outputFormat: "original"}} on a
\* PNG input give a processed format of PNG.
C6_KeepOriginal_AsClaimed ==
    (pc = "done" /\ result.success /\ input.name = "original"
                 /\ input.img.format = "PNG") =>
        result.format = "PNG"

\* C6 amended: with those overrides alone the mode is the default auto, which
\* forces WebP, and the processed format is WEBP; it is PNG when the overrides
\* also set mode to manual.
C6_KeepOriginal ==
    (pc = "done" /\ result.success /\ input.img.format = "PNG") =>
        /\ (input.name = "original" => result.format = "WEBP")
        /\ (input.name = "manual_original" => result.format = "PNG")

C6_Witness ==
    /\ pc = "done" /\ result.success
    /\ input.name = "original" /\ input.img.format = "PNG"
    /\ result.format = "WEBP"

\* C7: no failure raised in a stage of process_image leaves it; a finished
\* call holds the success record or a failure record naming the error kind.
C7_FailureContained ==
    /\ ~escaped
    /\ pc = "done" =>
          \/ result.success /\ DOMAIN result = {"success", "format", "size", "quality"}
          \/ ~result.success /\ DOMAIN result = {"success", "error_type"}
                             /\ result.error_type \in StageErrors

C7_Witness ==
    /\ pc = "done" /\ ~result.success
    /\ result.error_type = "TypeError"
    /\ rounds = 8

\* C8: in an optimizer round a dimension reduction is attempted only when the
\* measured size exceeds the target and quality is exactly 20; when the size
\* exceeds the target and quality > 20 the round lowers quality (by 15 down
\* to 30 if size > 1.5 x target and quality > 30, else by 5 down to 20) and
\* leaves the dimensions alone.
C8_QualityBeforeDimensions ==
    [][(pc = "loop" /\ rounds' = rounds + 1) =>
          LET s == current_size'
              t == processing_settings.targetFileSize
              attempted == \/ image' # image
                           \/ pc' = "writeback" /\ s > t /\ quality' = quality
                           \/ pc' = "done"
          IN  /\ attempted => s > t /\ quality = 20
              /\ (s > t /\ quality > 20) =>
                    /\ image' = image
                    /\ quality' = IF 2 * s > 3 * t /\ quality > 30
                                  THEN Max(30, quality - 15)
                                  ELSE Max(20, quality - 5)]_vars

C8_Witness ==
    /\ pc = "loop" /\ resizes = 1
    /\ rounds = resize_round
    /\ image # PreResize(input.img.w, input.img.h)

\* C9: in one run of _process_auto_mode the in-loop dimension reduction
\* happens at most once and not before round 8; the quality right after it
\* is 30, and at most two more rounds encode the resized buffer.
C9_SingleLateResize ==
    /\ resizes <= 1
    /\ resizes = 1 =>
          /\ resize_round >= 8
          /\ rounds - resize_round <= 2
          /\ (rounds = resize_round => quality = 30)

C9_Witness == resizes = 1 /\ resize_round = 8 /\ rounds = 10 /\ pc = "writeback"

\* C10: every resize the pipeline computes for an input of at least 1x1 has
\* new_width >= 1 and new_height >= 1.
C10_PositiveDimensions == new_size[1] >= 1 /\ new_size[2] >= 1

====
